---- MODULE Spec2Model ----
(***************************************************************************)
(* Exam timetable generator: the backtracking TimetableScheduler and the   *)
(* greedy HallAllocator of backend/app/core/scheduler.py, with the helpers *)
(* of core/utils.py, core/types.py and core/exceptions.py.                 *)
(*                                                                         *)
(* Subjects are identifiers 1..MaxSubjects (the code's subject strings are *)
(* only compared for equality).  A cell is the pair <<day, slot>>,         *)
(* 0-indexed as in the code.  An Optional[int] is a sequence of length at  *)
(* most one.  A dict is a sequence of entries in insertion order.          *)
(***************************************************************************)
EXTENDS Integers, Sequences, FiniteSets, TLC

\* ------------------------------------------------------------------ bounds
MaxCells == 4
MaxSubjects == 3
MaxGroups == 2
MaxGroupSubjects == 2
MaxSeed == 1
NumRngStates == 3
MaxAllocCells == 2
MaxAllocSubjects == 2
MaxGroupSize == 2
MaxHalls == 2
MaxCapacity == 3
MaxLimit == 2
MaxNames == 2

VARIABLES
    config,           \* TimetableScheduler.config (TimetableConfig)
    rng,              \* state of the process-wide generator of module random
    rng_origin,       \* history: who wrote rng, "fresh" (nobody), "own" (the
                      \* solve under way or just ended) or "other" (a solve before it)
    assignment,       \* TimetableScheduler.assignment, dict subject -> cell
    domains,          \* TimetableScheduler.domains, subject -> set of cells
    backtrack_count,  \* TimetableScheduler.backtrack_count
    subjects,         \* the sorted list handed to _backtrack
    stack,            \* the suspended _backtrack frames, outermost first, each
                      \* with the assignment and domains it was entered with
    call_index,       \* the index argument of the _backtrack call being entered
    retval,           \* the value the last _backtrack call returned
    pc,               \* position of the solve
    result,           \* the TimetableResult.assignments returned
    error,            \* the exception raised
    first_result,     \* per seed, the result of the first solve run with it
    repeated,         \* the running solve's seed already has a first result
    hall_config,      \* HallAllocator.hall_config (HallConfig)
    apc,              \* position of the hall allocation
    cur_day,          \* day of the loop of allocate_halls
    cur_slot,         \* slot of the loop of allocate_halls
    hall_assignments, \* the assignments list of allocate_halls
    allocations,      \* _greedy_allocate: the HallAssignments of the slot
    remaining,        \* _greedy_allocate: dict subject -> students not seated
    hall_index,       \* _greedy_allocate: index into sorted_halls
    hall_allocation,  \* _greedy_allocate: the (subject, count) list of the hall
    hall_capacity_used,      \* _greedy_allocate: seats given in the hall
    subjects_with_students,  \* _greedy_allocate: the sorted list being walked
    sws_pos,                 \* position of the loop over subjects_with_students
    config_store,     \* routes.config_store without the key last_result
    last_result,      \* config_store["last_result"], None while the key is absent
    handling,         \* the request the gateway is handling
    request,          \* the body of the /api/generate request being handled
    response          \* the response to the last request handled

schedVars == <<rng, rng_origin, assignment, domains, backtrack_count, subjects, stack,
               call_index, retval, first_result, repeated>>

allocVars == <<hall_config, apc, cur_day, cur_slot, hall_assignments, allocations,
               remaining, hall_index, hall_allocation, hall_capacity_used,
               subjects_with_students, sws_pos>>

gatewayVars == <<config_store, last_result, handling, request, response>>

vars == <<config, pc, result, error, schedVars, allocVars, gatewayVars>>

\* --------------------------------------------------------------- helpers
Range(f) == {f[i] : i \in DOMAIN f}

None == <<>>
Some(x) == <<x>>

\* the elements of a set, as a list in a fixed order
RECURSIVE SetToSeq(_)
SetToSeq(S) ==
    IF S = {} THEN <<>>
    ELSE LET x == CHOOSE y \in S : TRUE IN <<x>> \o SetToSeq(S \ {x})

\* the lists of 1..len entries of 1..n, ascending without repetition
AscendingLists(n, len) ==
    UNION {{l \in [1..k -> 1..n] : \A i, j \in 1..k : i < j => l[i] < l[j]} : k \in 1..len}

\* the lists of 1..len entries of 1..n, ascending with repetition
NonDecreasingLists(n, len) ==
    UNION {{l \in [1..k -> 1..n] : \A i, j \in 1..k : i < j => l[i] <= l[j]} : k \in 1..len}

\* the (days, slots_per_day) grids of at most c cells, of one day or of two
Grids(c) == {g \in (1..2) \X (1..c) : g[1] * g[2] <= c}

\* sorted(seq, key=..., reverse=True): stable, descending by key
RECURSIVE SortedDesc(_, _)
SortedDesc(seq, key) ==
    IF seq = <<>> THEN <<>>
    ELSE LET n    == Len(seq)
             init == SortedDesc(SubSeq(seq, 1, n - 1), key)
             x    == seq[n]
             k    == Cardinality({i \in 1..Len(init) : key[init[i]] >= key[x]})
         IN  SubSeq(init, 1, k) \o <<x>> \o SubSeq(init, k + 1, Len(init))

\* ------------------------------------------------------ types.py
total_slots(c) == c.days * c.slots_per_day

\* ------------------------------------------------------ exceptions.py
\* the exception classes and their base classes
Bases(kind) ==
    CASE kind = "InsufficientSlotsError" -> {"InsufficientSlotsError", "NoSolutionError", "SchedulerError"}
      [] kind = "ConflictError" -> {"ConflictError", "NoSolutionError", "SchedulerError"}
      [] kind = "NoSolutionError" -> {"NoSolutionError", "SchedulerError"}
      [] kind = "InsufficientHallCapacityError" -> {"InsufficientHallCapacityError", "HallAllocationError", "SchedulerError"}
      [] kind = "ValidationError" -> {"ValidationError", "SchedulerError"}
      [] OTHER -> {}

\* An exception: its class, the args tuple of BaseException, and the
\* diagnostics attribute, which only NoSolutionError.__init__ sets
NoError == [kind |-> "none", args |-> <<>>, diagnostics |-> None]

\* NoSolutionError.__init__ (and its subclasses): super().__init__(message),
\* self.diagnostics = diagnostics
NoSolutionInit(kind, message, diagnostics) ==
    [kind |-> kind, args |-> <<message>>, diagnostics |-> Some(diagnostics)]

\* the classes that define no __init__: Exception(message, diagnostics)
PlainExceptionInit(kind, message, diagnostics) ==
    [kind |-> kind, args |-> <<message, diagnostics>>, diagnostics |-> None]

\* ------------------------------------------------------ utils.py
build_conflict_graph(groups) ==
    LET keys == UNION {Range(groups[g].subjects) : g \in DOMAIN groups}
    IN  [s \in keys |->
            {o \in keys : /\ o # s
                          /\ \E g \in DOMAIN groups :
                                /\ s \in Range(groups[g].subjects)
                                /\ o \in Range(groups[g].subjects)}]

\* conflicts.get(subject, set())
ConflictsOfNone(cg, s) == {}

ConflictsOf(cg, s) == IF s \in DOMAIN cg THEN cg[s] ELSE {}

CountConflictsZero(s, cg) == 0

count_conflicts(s, cg) == Cardinality(ConflictsOf(cg, s))

\* The error list of validate_config, as the set of its entries: the order
\* of the entries follows a set iteration and is not used by any caller.
validate_config(c) ==
    LET all_group_subjects == UNION {Range(c.groups[g].subjects) : g \in DOMAIN c.groups}
    IN  (IF Len(c.subjects) > total_slots(c) THEN {<<"insufficient_slots", 0>>} ELSE {})
        \cup {<<"not_in_any_group", s>> : s \in Range(c.subjects) \ all_group_subjects}
        \cup {<<"not_in_subject_list", s>> : s \in all_group_subjects \ Range(c.subjects)}

get_subjects_in_slot(groups, subject, cell, current_assignment) ==
    {subject} \cup {current_assignment[i].subject :
                      i \in {j \in DOMAIN current_assignment : current_assignment[j].cell = cell}}

\* True when some group lists more than one entry that is in the slot; the
\* group's subjects are a list, and the comprehension keeps every entry
check_group_conflicts(groups, subjects_in_slot) ==
    \E g \in DOMAIN groups :
        Cardinality({i \in DOMAIN groups[g].subjects :
                        groups[g].subjects[i] \in subjects_in_slot}) > 1

\* ------------------------------------------------------ module random
RngStates == 0..(NumRngStates - 1)

\* one step of the generator
RngNext(r) == (r + 1) % NumRngStates

\* random.seed(k)
Seeded(k) == (k + 1) % NumRngStates

\* random.shuffle: for i from len-1 down to 1, j = randbelow(i+1), swap
RECURSIVE ShuffleFrom(_, _, _)
ShuffleFrom(x, i, r) ==
    IF i < 2 THEN [list |-> x, rng |-> r]
    ELSE LET j == (r % i) + 1
         IN  ShuffleFrom([x EXCEPT ![i] = x[j], ![j] = x[i]], i - 1, RngNext(r))

shuffle(x, r) == ShuffleFrom(x, Len(x), r)

\* ------------------------------------------------------ scheduler.py
conflicts == build_conflict_graph(config.groups)

\* all_slots of generate_timetable, day-major
all_slots(c) ==
    [k \in 1..total_slots(c) |->
        <<(k - 1) \div c.slots_per_day, (k - 1) % c.slots_per_day>>]

\* list(set_of_cells): the cells of the set, in the order of all_slots
ListOfCells(c, dom) == SelectSeq(all_slots(c), LAMBDA cell : cell \in dom)

HasKey(d, k) == \E i \in DOMAIN d : d[i].subject = k

\* d[k] = v on an insertion-ordered dict
DictSet(d, k, v) ==
    IF HasKey(d, k)
    THEN [i \in DOMAIN d |-> IF d[i].subject = k THEN [subject |-> k, cell |-> v] ELSE d[i]]
    ELSE Append(d, [subject |-> k, cell |-> v])

\* del d[k]
DictDel(d, k) == SelectSeq(d, LAMBDA e : e.subject # k)

IsConsistentNoOccupancy(c, asg, subject, cell) ==
    ~ check_group_conflicts(c.groups, get_subjects_in_slot(c.groups, subject, cell, asg))

_is_consistent(c, asg, subject, cell) ==
    /\ \A i \in DOMAIN asg : asg[i].cell # cell
    /\ ~ check_group_conflicts(c.groups, get_subjects_in_slot(c.groups, subject, cell, asg))

\* _save_domains: a copy of every subject's domain
_save_domains(doms) == doms

\* _restore_domains: the domains become the saved ones
RestoreKeepsPruned(saved_domains) == domains

_restore_domains(saved_domains) == saved_domains

ForwardCheckNoPruning(cg, asg, doms, subject, cell) == [ok |-> TRUE, domains |-> doms]

\* The domains after the pruning loop has run over every conflicting
\* subject, and whether no unassigned conflicting subject is left with an
\* empty domain.  When the code returns False early, the partly pruned
\* domains are replaced by the snapshot in the same step of _backtrack.
_forward_check(cg, asg, doms, subject, cell) ==
    LET todo   == {s \in ConflictsOf(cg, subject) : ~ HasKey(asg, s)}
        pruned == [s \in DOMAIN doms |-> IF s \in todo THEN doms[s] \ {cell} ELSE doms[s]]
    IN  [ok |-> \A s \in todo : pruned[s] # {}, domains |-> pruned]

\* TimetableScheduler.__init__, lines 36-37: the generator after construction
SeedIgnored(seed, r) == r

SeedAtConstruction(seed, r) == IF seed # None THEN Seeded(seed[1]) ELSE r

\* The configurations a solve is run on.  The scheduler reads the groups
\* through sets and existential tests only, so the groups are taken in one
\* fixed order, each listing its subjects in ascending order.  The last
\* group may be one that lists subject 1 twice (after one other group), or
\* one that lists a subject that is not a config subject.  The config lists its subjects in ascending
\* or in descending order.
Seeds == {None} \cup {Some(k) : k \in 0..MaxSeed}

GroupsOf(S) == [i \in 1..Cardinality(S) |-> [subjects |-> SetToSeq(S)[i], size |-> 1]]

PlainGroupLists(n, len) ==
    {GroupsOf(S) : S \in {T \in SUBSET AscendingLists(n, MaxGroupSubjects) :
                              Cardinality(T) \in 1..len}}

GroupLists(n) ==
    PlainGroupLists(n, MaxGroups)
        \cup {Append(g, [subjects |-> <<1, 1>>, size |-> 1]) : g \in PlainGroupLists(n, 1)}
        \cup {Append(g, [subjects |-> <<n + 1>>, size |-> 1]) : g \in PlainGroupLists(n, MaxGroups - 1)}

\* the subjects 1..n in ascending and in descending order
SubjectOrders(n) == {[i \in 1..n |-> i], [i \in 1..n |-> n + 1 - i]}

Configs ==
    UNION {{[days |-> dg[1], slots_per_day |-> dg[2], subjects |-> o,
             groups |-> g, random_seed |-> None] :
               dg \in Grids(MaxCells), o \in SubjectOrders(n), g \in GroupLists(n)} :
           n \in 1..MaxSubjects}

\* no request has been answered
NoResponse == [to |-> "none", status |-> 0, body |-> <<>>]

\* routes.py, lines 27-35: the store of a fresh process, no request handled
GatewayIdle ==
    /\ config_store = [subjects |-> <<>>, groups |-> <<>>, days |-> 5, slots_per_day |-> 2,
                       halls |-> <<>>, per_subject_limit |-> 30, random_seed |-> None]
    /\ last_result = None
    /\ handling = "none"
    /\ request = None
    /\ response = NoResponse

\* no hall allocation under way
AllocIdle ==
    /\ hall_config = [halls |-> <<>>, per_subject_limit |-> 1]
    /\ apc = "idle"
    /\ cur_day = 0
    /\ cur_slot = 0
    /\ hall_assignments = <<>>
    /\ allocations = <<>>
    /\ remaining = <<>>
    /\ hall_index = 0
    /\ hall_allocation = <<>>
    /\ hall_capacity_used = 0
    /\ subjects_with_students = <<>>
    /\ sws_pos = 1

Init ==
    /\ config \in Configs
    /\ rng \in RngStates
    /\ rng_origin = "fresh"
    /\ assignment = <<>>
    /\ domains = <<>>
    /\ backtrack_count = 0
    /\ subjects = <<>>
    /\ stack = <<>>
    /\ call_index = 0
    /\ retval = FALSE
    /\ pc = "idle"
    /\ result = <<>>
    /\ error = NoError
    /\ first_result = [s \in Seeds \ {None} |-> None]
    /\ repeated = FALSE
    /\ GatewayIdle
    /\ AllocIdle

\* scheduler.generate_timetable(config): TimetableScheduler(config), then
\* the method generate_timetable up to the call of _backtrack(subjects, 0)
generate_timetable(c) ==
    /\ pc \in {"idle", "done", "failed"}
    /\ LET seed   == c.random_seed
           errors == validate_config(c)
           cg     == build_conflict_graph(c.groups)
       IN  /\ config' = c
           /\ rng' = SeedAtConstruction(seed, rng)
           /\ rng_origin' = IF seed # None THEN "own"
                            ELSE IF rng_origin = "fresh" THEN "fresh" ELSE "other"
           /\ repeated' = (seed # None /\ first_result[seed] # None)
           /\ assignment' = <<>>
           /\ backtrack_count' = 0
           /\ stack' = <<>>
           /\ call_index' = 0
           /\ retval' = FALSE
           /\ result' = <<>>
           /\ IF errors # {}
              THEN /\ error' = NoSolutionInit("NoSolutionError", "Invalid configuration",
                                              [validation_errors |-> errors])
                   /\ pc' = "failed"
                   /\ domains' = <<>>
                   /\ subjects' = <<>>
              ELSE IF Len(c.subjects) > total_slots(c)
              THEN /\ error' = NoSolutionInit("InsufficientSlotsError",
                                              "Cannot fit subjects into slots",
                                              [subjects_count |-> Len(c.subjects),
                                               total_slots |-> total_slots(c),
                                               deficit |-> Len(c.subjects) - total_slots(c)])
                   /\ pc' = "failed"
                   /\ domains' = <<>>
                   /\ subjects' = <<>>
              ELSE /\ error' = NoError
                   /\ domains' = [s \in Range(c.subjects) |-> Range(all_slots(c))]
                   /\ subjects' = SortedDesc(c.subjects,
                                     [s \in Range(c.subjects) |-> count_conflicts(s, cg)])
                   /\ pc' = "call"
    /\ UNCHANGED <<first_result, allocVars>>

\* generate_timetable called on the configuration, with a seed or without
GenerateTimetable(seed) ==
    /\ generate_timetable([config EXCEPT !.random_seed = seed])
    /\ UNCHANGED gatewayVars

\* _backtrack, lines 118-128: count the call, return True at the end of the
\* list, else materialize and shuffle the subject's domain
BaseCaseOffByOne(index, subs) == index >= Len(subs) - 1

BaseCase(index, subs) == index >= Len(subs)

BacktrackEnter ==
    /\ pc = "call"
    /\ backtrack_count' = backtrack_count + 1
    /\ IF BaseCase(call_index, subjects)
       THEN /\ retval' = TRUE
            /\ pc' = "ret"
            /\ UNCHANGED <<rng, rng_origin, stack>>
       ELSE LET subject == subjects[call_index + 1]
                sh      == shuffle(ListOfCells(config, domains[subject]), rng)
            IN  /\ rng' = sh.rng
                /\ rng_origin' = IF Len(sh.list) >= 2 /\ rng_origin = "fresh"
                                 THEN "own" ELSE rng_origin
                /\ stack' = Append(stack, [index |-> call_index,
                                           possible_slots |-> sh.list,
                                           pos |-> 1,
                                           saved_domains |-> <<>>,
                                           entry_assignment |-> assignment,
                                           entry_domains |-> domains])
                /\ pc' = "loop"
                /\ UNCHANGED retval
    /\ UNCHANGED <<gatewayVars, config, assignment, domains, subjects, call_index, result,
                   error, first_result, repeated, allocVars>>

\* _backtrack, lines 130-146: one iteration of the loop over possible_slots,
\* up to the recursive call, or the return False after the loop
BacktrackLoop ==
    /\ pc = "loop"
    /\ LET top     == Len(stack)
           f       == stack[top]
           subject == subjects[f.index + 1]
       IN  IF f.pos > Len(f.possible_slots)
           THEN /\ stack' = SubSeq(stack, 1, top - 1)
                /\ retval' = FALSE
                /\ pc' = "ret"
                /\ UNCHANGED <<assignment, domains, call_index>>
           ELSE LET cell == f.possible_slots[f.pos]
                IN  IF ~ _is_consistent(config, assignment, subject, cell)
                    THEN /\ stack' = [stack EXCEPT ![top].pos = f.pos + 1]
                         /\ UNCHANGED <<assignment, domains, call_index, retval, pc>>
                    ELSE LET assigned == DictSet(assignment, subject, cell)
                             saved    == _save_domains(domains)
                             fc       == _forward_check(conflicts, assigned, domains, subject, cell)
                         IN  IF fc.ok
                             THEN /\ assignment' = assigned
                                  /\ domains' = fc.domains
                                  /\ stack' = [stack EXCEPT ![top].saved_domains = saved]
                                  /\ call_index' = f.index + 1
                                  /\ pc' = "call"
                                  /\ UNCHANGED retval
                             ELSE /\ assignment' = DictDel(assigned, subject)
                                  /\ domains' = _restore_domains(saved)
                                  /\ stack' = [stack EXCEPT ![top].pos = f.pos + 1]
                                  /\ UNCHANGED <<call_index, retval, pc>>
    /\ UNCHANGED <<gatewayVars, config, rng, rng_origin, backtrack_count, subjects, result, error,
                   first_result, repeated, allocVars>>

\* the assignments list of the TimetableResult, lines 100-105
BuildResultSlotForDay(asg) ==
    [i \in DOMAIN asg |-> [day |-> asg[i].cell[2], slot |-> asg[i].cell[2],
                           subject |-> asg[i].subject]]

BuildResult(asg) ==
    [i \in DOMAIN asg |-> [day |-> asg[i].cell[1], slot |-> asg[i].cell[2],
                           subject |-> asg[i].subject]]

\* A _backtrack call has returned: to the caller frame (lines 139-144), or
\* to generate_timetable (lines 86-105)
BacktrackReturn ==
    /\ pc = "ret"
    /\ IF stack = <<>>
       THEN /\ IF retval
               THEN /\ result' = BuildResult(assignment)
                    /\ pc' = "done"
                    /\ error' = NoError
                    /\ first_result' =
                          IF config.random_seed # None /\ first_result[config.random_seed] = None
                          THEN [first_result EXCEPT ![config.random_seed] = Some(BuildResult(assignment))]
                          ELSE first_result
               ELSE /\ error' = NoSolutionInit("NoSolutionError",
                                 "No valid timetable found after exhaustive search",
                                 [backtrack_attempts |-> backtrack_count,
                                  subjects |-> Len(config.subjects),
                                  conflicts |-> [s \in Range(config.subjects) |->
                                                    ConflictsOf(conflicts, s)]])
                    /\ pc' = "failed"
                    /\ UNCHANGED <<result, first_result>>
            /\ UNCHANGED <<assignment, domains, stack, retval>>
       ELSE /\ LET top     == Len(stack)
                   f       == stack[top]
                   subject == subjects[f.index + 1]
               IN  IF retval
                   THEN /\ stack' = SubSeq(stack, 1, top - 1)
                        /\ UNCHANGED <<assignment, domains, retval, pc>>
                   ELSE /\ assignment' = DictDel(assignment, subject)
                        /\ domains' = _restore_domains(f.saved_domains)
                        /\ stack' = [stack EXCEPT ![top].pos = f.pos + 1,
                                                  ![top].saved_domains = <<>>]
                        /\ pc' = "loop"
                        /\ UNCHANGED retval
            /\ UNCHANGED <<result, error, first_result>>
    /\ UNCHANGED <<gatewayVars, config, rng, rng_origin, backtrack_count, subjects, call_index, repeated,
                   allocVars>>

\* one solve of a configuration, from any state of the generator
FirstSolve(seed) == pc = "idle" /\ GenerateTimetable(seed)

Next ==
    \/ \E seed \in Seeds : FirstSolve(seed)
    \/ BacktrackEnter
    \/ BacktrackLoop
    \/ BacktrackReturn

Spec == Init /\ [][Next]_vars

\* solve after solve in one process, all sharing the generator of module
\* random, on the configurations of fewer than MaxGroups groups that have a
\* timetable
SeedInit ==
    /\ Init
    /\ Len(config.groups) < MaxGroups
    /\ validate_config(config) = {}
    /\ \A g \in DOMAIN config.groups :
          Cardinality(Range(config.groups[g].subjects)) = Len(config.groups[g].subjects)

SeedNext ==
    \/ \E seed \in Seeds : GenerateTimetable(seed)
    \/ BacktrackEnter
    \/ BacktrackLoop
    \/ BacktrackReturn

SeedSpec == SeedInit /\ [][SeedNext]_vars

\* ------------------------------------------------------ HallAllocator
\* HallConfig.total_capacity
RECURSIVE SumCapacity(_)
SumCapacity(halls) ==
    IF halls = <<>> THEN 0 ELSE halls[1].capacity + SumCapacity(Tail(halls))

total_capacity(hc) == SumCapacity(hc.halls)

\* sum(d.values()) of a dict subject -> count
RECURSIVE SumCounts(_)
SumCounts(d) == IF d = <<>> THEN 0 ELSE d[1].count + SumCounts(Tail(d))

\* d[k] += n on a defaultdict(int)
DictAssign(d, k, n) ==
    IF HasKey(d, k)
    THEN [i \in DOMAIN d |-> IF d[i].subject = k THEN [subject |-> k, count |-> n] ELSE d[i]]
    ELSE Append(d, [subject |-> k, count |-> n])

DictAdd(d, k, n) ==
    IF HasKey(d, k)
    THEN [i \in DOMAIN d |-> IF d[i].subject = k THEN [subject |-> k, count |-> d[i].count + n] ELSE d[i]]
    ELSE Append(d, [subject |-> k, count |-> n])

\* _allocate_slot, lines 258-261: the subjects of the slot, in timetable order
SubjectsInSlot(tt, day, slot) ==
    LET here == SelectSeq(tt, LAMBDA a : a.day = day /\ a.slot = slot)
    IN  [i \in DOMAIN here |-> here[i].subject]

\* _allocate_slot, lines 267-271: students per subject, groups outermost
RECURSIVE CountGroup(_, _, _, _)
CountGroup(d, group, sis, i) ==
    IF i > Len(sis) THEN d
    ELSE CountGroup(IF sis[i] \in Range(group.subjects)
                    THEN DictAdd(d, sis[i], group.size) ELSE d,
                    group, sis, i + 1)

RECURSIVE CountGroups(_, _, _, _)
CountGroups(d, groups, sis, g) ==
    IF g > Len(groups) THEN d
    ELSE CountGroups(CountGroup(d, groups[g], sis, 1), groups, sis, g + 1)

subject_students(groups, sis) == CountGroups(<<>>, groups, sis, 1)

\* _greedy_allocate, lines 299-303
sorted_halls == SortedDesc(hall_config.halls,
                           [h \in Range(hall_config.halls) |-> h.capacity])

\* _greedy_allocate, lines 326-329: the subjects with students left, largest
\* count first
SubjectsInDictOrder(rem) == SelectSeq(rem, LAMBDA e : e.count > 0)

sorted_subjects(rem) ==
    LET with_students == SelectSeq(rem, LAMBDA e : e.count > 0)
    IN  SortedDesc(with_students, [e \in Range(with_students) |-> e.count])

\* len([s for s, c in remaining.items() if c > 0])
NumWithDemand(rem) == Cardinality({i \in DOMAIN rem : rem[i].count > 0})

Min2(a, b) == IF a <= b THEN a ELSE b

\* _greedy_allocate, lines 337-346
AllocateAmountAlwaysLifted(count, limit, available, pending) ==
    Min2(count, available)

AllocateAmountNeverLifted(count, limit, available, pending) ==
    Min2(count, Min2(limit, available))

AllocateAmountNoCapacity(count, limit, available, pending) ==
    IF pending = 1 THEN count ELSE Min2(count, limit)

allocate_amount(count, limit, available, pending) ==
    IF pending = 1
    THEN Min2(count, available)
    ELSE Min2(count, Min2(limit, available))

\* the loop of allocate_halls moves to the next (day, slot)
NextCell ==
    IF cur_slot + 1 < config.slots_per_day
    THEN /\ cur_slot' = cur_slot + 1
         /\ UNCHANGED cur_day
    ELSE /\ cur_slot' = 0
         /\ cur_day' = cur_day + 1

\* scheduler.allocate_halls(timetable, hall_config): HallAllocator(...) and
\* the start of the method allocate_halls
AllocateHalls(hc) ==
    /\ pc = "done"
    /\ apc = "idle"
    /\ hall_config' = hc
    /\ hall_assignments' = <<>>
    /\ cur_day' = 0
    /\ cur_slot' = 0
    /\ apc' = "slot"
    /\ UNCHANGED <<gatewayVars, config, pc, result, error, schedVars, allocations, remaining,
                   hall_index, hall_allocation, hall_capacity_used,
                   subjects_with_students, sws_pos>>

\* one iteration of the loops of allocate_halls: _allocate_slot up to the
\* while loop of _greedy_allocate; after the last slot, the return
AllocateSlot ==
    /\ apc = "slot"
    /\ IF cur_day >= config.days
       THEN /\ apc' = "done"
            /\ UNCHANGED <<cur_day, cur_slot, allocations, remaining, hall_index>>
       ELSE LET subjects_in_slot == SubjectsInSlot(result, cur_day, cur_slot)
            IN  IF subjects_in_slot = <<>>
                THEN /\ NextCell
                     /\ UNCHANGED <<apc, allocations, remaining, hall_index>>
                ELSE /\ remaining' = subject_students(config.groups, subjects_in_slot)
                     /\ allocations' = <<>>
                     /\ hall_index' = 0
                     /\ apc' = "hall"
                     /\ UNCHANGED <<cur_day, cur_slot>>
    /\ UNCHANGED <<gatewayVars, config, pc, result, error, schedVars, hall_config, hall_assignments,
                   hall_allocation, hall_capacity_used, subjects_with_students, sws_pos>>

\* _greedy_allocate, lines 307-329: the test of the while loop; the return to
\* allocate_halls, the raise, or the start of the next hall
GreedyHall ==
    /\ apc = "hall"
    /\ IF NumWithDemand(remaining) = 0
       THEN /\ hall_assignments' = hall_assignments \o allocations
            /\ NextCell
            /\ apc' = "slot"
            /\ UNCHANGED <<error, hall_allocation, hall_capacity_used,
                           subjects_with_students, sws_pos>>
       ELSE IF hall_index >= Len(sorted_halls)
       THEN /\ error' = PlainExceptionInit("InsufficientHallCapacityError",
                            "Insufficient hall capacity for slot",
                            [remaining_students |-> SumCounts(remaining),
                             total_capacity |-> total_capacity(hall_config),
                             subjects |-> remaining])
            /\ apc' = "failed"
            /\ UNCHANGED <<hall_assignments, cur_day, cur_slot, hall_allocation,
                           hall_capacity_used, subjects_with_students, sws_pos>>
       ELSE /\ hall_allocation' = <<>>
            /\ hall_capacity_used' = 0
            /\ subjects_with_students' = sorted_subjects(remaining)
            /\ sws_pos' = 1
            /\ apc' = "subject"
            /\ UNCHANGED <<error, hall_assignments, cur_day, cur_slot>>
    /\ UNCHANGED <<gatewayVars, config, pc, result, schedVars, hall_config, allocations, remaining,
                   hall_index>>

\* _greedy_allocate, lines 332-351: one iteration of the loop over
\* subjects_with_students
GreedySubject ==
    /\ apc = "subject"
    /\ sws_pos <= Len(subjects_with_students)
    /\ hall_capacity_used < sorted_halls[hall_index + 1].capacity
    /\ LET hall      == sorted_halls[hall_index + 1]
           subject   == subjects_with_students[sws_pos].subject
           count     == subjects_with_students[sws_pos].count
           available == hall.capacity - hall_capacity_used
           amount    == allocate_amount(count, hall_config.per_subject_limit,
                                        available, NumWithDemand(remaining))
       IN  IF amount > 0
           THEN /\ hall_allocation' = Append(hall_allocation, <<subject, amount>>)
                /\ remaining' = DictAdd(remaining, subject, 0 - amount)
                /\ hall_capacity_used' = hall_capacity_used + amount
           ELSE UNCHANGED <<hall_allocation, remaining, hall_capacity_used>>
    /\ sws_pos' = sws_pos + 1
    /\ UNCHANGED <<gatewayVars, config, pc, result, error, schedVars, hall_config, apc, cur_day,
                   cur_slot, hall_assignments, allocations, hall_index,
                   subjects_with_students>>

\* _greedy_allocate, lines 333-334 and 353-361: the loop over the subjects
\* ends or breaks, the hall's allocation is recorded if it is not empty
GreedyHallEnd ==
    /\ apc = "subject"
    /\ \/ sws_pos > Len(subjects_with_students)
       \/ hall_capacity_used >= sorted_halls[hall_index + 1].capacity
    /\ allocations' =
          IF hall_allocation # <<>>
          THEN Append(allocations, [hall_name |-> sorted_halls[hall_index + 1].name,
                                    day |-> cur_day, slot |-> cur_slot,
                                    allocations |-> hall_allocation])
          ELSE allocations
    /\ hall_index' = hall_index + 1
    /\ apc' = "hall"
    /\ UNCHANGED <<gatewayVars, config, pc, result, error, schedVars, hall_config, cur_day, cur_slot,
                   hall_assignments, remaining, hall_allocation, hall_capacity_used,
                   subjects_with_students, sws_pos>>

\* The timetables and hall configurations the allocator is run on: the
\* subjects 1..m have a group each, of sizes that rise or fall with the
\* subject, and one more group may list the first k of them (all of them,
\* or all but the last); the timetable puts the subjects 1..n (m is n, or
\* n - 1 so that a subject has no group) in the first cells of the grid,
\* several in one cell too, in the order of the cells (the allocator treats
\* each cell on its own); the halls are listed by rising capacity (the
\* allocator sorts them), all of one capacity but for the last.
AllocGroupLists(m, k) ==
    {[i \in 1..(m + (IF k > 0 THEN 1 ELSE 0)) |->
         IF i <= m THEN [subjects |-> <<i>>, size |-> z[i]]
         ELSE [subjects |-> [j \in 1..k |-> j], size |-> 1]] :
        z \in {y \in [1..m -> 1..MaxGroupSize] :
                   \/ \A i, j \in 1..m : i < j => y[i] <= y[j]
                   \/ \A i, j \in 1..m : i < j => y[i] >= y[j]}}
AllocConfigs ==
    UNION {{[days |-> dg[1], slots_per_day |-> dg[2], subjects |-> [i \in 1..n |-> i],
             groups |-> g, random_seed |-> None] :
               dg \in Grids(MaxAllocCells),
               g \in UNION {AllocGroupLists(n, k) : k \in {0, n - 1, n}} \cup
                     (IF n > 1 THEN AllocGroupLists(n - 1, 0) ELSE {})} :
           n \in 1..MaxAllocSubjects}
Timetables(c) ==
    {[i \in DOMAIN c.subjects |->
        [day |-> all_slots(c)[f[i]][1], slot |-> all_slots(c)[f[i]][2], subject |-> c.subjects[i]]] :
        f \in {h \in [DOMAIN c.subjects -> 1..total_slots(c)] :
                   /\ h[1] = 1
                   /\ \A i \in DOMAIN h \ {1} : h[i] \in {h[i - 1], h[i - 1] + 1}}}
HallLists ==
    {[i \in DOMAIN caps |-> [name |-> i, capacity |-> caps[i]]] :
        caps \in {l \in NonDecreasingLists(MaxCapacity, MaxHalls) :
                     \A i \in 2..(Len(l) - 1) : l[i] = l[1]}}
HallConfigs == {[halls |-> h, per_subject_limit |-> l] : h \in HallLists, l \in 1..MaxLimit}

\* a timetable is at hand, no allocation has started
AllocInit ==
    /\ config \in AllocConfigs
    /\ result \in Timetables(config)
    /\ pc = "done"
    /\ error = NoError
    /\ rng = 0
    /\ rng_origin = "fresh"
    /\ assignment = <<>>
    /\ domains = <<>>
    /\ backtrack_count = 0
    /\ subjects = <<>>
    /\ stack = <<>>
    /\ call_index = 0
    /\ retval = FALSE
    /\ first_result = [s \in Seeds \ {None} |-> None]
    /\ repeated = FALSE
    /\ GatewayIdle
    /\ AllocIdle

AllocNext ==
    \/ \E hc \in HallConfigs : AllocateHalls(hc)
    \/ AllocateSlot
    \/ GreedyHall
    \/ GreedySubject
    \/ GreedyHallEnd

AllocSpec == AllocInit /\ [][AllocNext]_vars

\* ------------------------------------------------------ api/routes.py
\* no TimetableScheduler exists: the configuration of no request
NoConfig == [days |-> 0, slots_per_day |-> 0, subjects |-> <<>>, groups |-> <<>>,
             random_seed |-> None]

\* the empty dict
EmptyDict == <<>>

\* str(e): BaseException.__str__ gives the argument if there is one, else
\* the tuple of the arguments; NoSolutionError.__str__ (lines 23-30) puts
\* the diagnostics after it when there are any
BaseStr(e) == IF Len(e.args) = 1 THEN e.args[1] ELSE e.args

StrOf(e) ==
    IF "NoSolutionError" \in Bases(e.kind) /\ DOMAIN e.diagnostics[1] # {}
    THEN <<BaseStr(e), "Diagnostics:", e.diagnostics[1]>>
    ELSE BaseStr(e)

\* e.diagnostics
DiagnosticsOf(e) == e.diagnostics[1]

\* getattr(e, 'diagnostics', {})
GetattrDiagnostics(e) == IF e.diagnostics # None THEN e.diagnostics[1] ELSE EmptyDict

\* TimetableResult.to_dict
TimetableToDict(tt) ==
    [days |-> tt.config.days, slots_per_day |-> tt.config.slots_per_day,
     assignments |-> [i \in DOMAIN tt.assignments |->
                         [day |-> tt.assignments[i].day + 1,
                          slot |-> tt.assignments[i].slot + 1,
                          subject |-> tt.assignments[i].subject]]]

\* HallAllocationResult.to_dict
to_dict(r) ==
    [timetable |-> TimetableToDict(r.timetable),
     hall_allocations |-> [i \in DOMAIN r.assignments |->
                              [hall |-> r.assignments[i].hall_name,
                               day |-> r.assignments[i].day + 1,
                               slot |-> r.assignments[i].slot + 1,
                               allocations |-> [j \in DOMAIN r.assignments[i].allocations |->
                                   [subject |-> r.assignments[i].allocations[j][1],
                                    students |-> r.assignments[i].allocations[j][2]]]]]]

\* utils.generate_csv_export: the rows of the two sections
RECURSIVE HallRows(_)
HallRows(has) ==
    IF has = <<>> THEN <<>>
    ELSE [j \in DOMAIN has[1].allocations |->
             <<has[1].hall_name, has[1].day + 1, has[1].slot + 1,
               has[1].allocations[j][1], has[1].allocations[j][2]>>]
         \o HallRows(Tail(has))

generate_csv_export(r) ==
    [timetable |-> [i \in DOMAIN r.timetable.assignments |->
                       <<r.timetable.assignments[i].day + 1,
                         r.timetable.assignments[i].slot + 1,
                         r.timetable.assignments[i].subject>>],
     hall_allocations |-> HallRows(r.assignments)]

\* generate_schedule, lines 136-177: the except clauses, in their order
HttpException(e) ==
    IF "InsufficientSlotsError" \in Bases(e.kind)
    THEN [to |-> "generate", status |-> 422,
          body |-> [error |-> "Insufficient slots", message |-> StrOf(e),
                    diagnostics |-> DiagnosticsOf(e)]]
    ELSE IF "InsufficientHallCapacityError" \in Bases(e.kind)
    THEN [to |-> "generate", status |-> 422,
          body |-> [error |-> "Insufficient hall capacity", message |-> StrOf(e),
                    diagnostics |-> GetattrDiagnostics(e)]]
    ELSE IF "NoSolutionError" \in Bases(e.kind)
    THEN [to |-> "generate", status |-> 422,
          body |-> [error |-> "No solution found", message |-> StrOf(e),
                    diagnostics |-> DiagnosticsOf(e)]]
    ELSE IF "SchedulerError" \in Bases(e.kind)
    THEN [to |-> "generate", status |-> 400, body |-> StrOf(e)]
    ELSE [to |-> "generate", status |-> 500, body |-> StrOf(e)]

\* export_csv, lines 188-201: the status of the answer
export_status(lr) == IF lr = None THEN 404 ELSE 200

\* POST /api/config, lines 38-83: the seven fields are stored, the stored
\* configuration is returned
ConfigureSystem(body) ==
    /\ handling = "none"
    /\ config_store' = [subjects |-> body.subjects,
                        groups |-> [i \in DOMAIN body.groups |->
                                       [name |-> body.groups[i].name,
                                        subjects |-> body.groups[i].subjects,
                                        size |-> body.groups[i].size]],
                        days |-> body.days, slots_per_day |-> body.slots_per_day,
                        halls |-> body.halls, per_subject_limit |-> body.per_subject_limit,
                        random_seed |-> body.random_seed]
    /\ response' = [to |-> "config", status |-> 200,
                    body |-> [message |-> "Configuration stored successfully",
                              config |-> config_store']]
    /\ UNCHANGED <<last_result, handling, request, config, pc, result, error,
                   schedVars, allocVars>>

\* POST /api/generate, lines 98-126: the domain objects are built from the
\* body and generate_timetable is called
GenerateSchedule(body) ==
    /\ handling = "none"
    /\ pc = "idle"
    /\ generate_timetable(body.timetable_config)
    /\ handling' = "generate"
    /\ request' = body
    /\ UNCHANGED <<config_store, last_result, response>>

\* POST /api/generate, lines 128-130: allocate_halls is called on the
\* timetable that generate_timetable returned
GenerateAllocate ==
    /\ handling = "generate"
    /\ AllocateHalls(request.hall_config)

\* the objects of the request are dropped when the handler is left
RequestDropped ==
    /\ handling' = "none"
    /\ request' = None
    /\ config' = NoConfig
    /\ pc' = "idle"
    /\ result' = <<>>
    /\ error' = NoError
    /\ assignment' = <<>>
    /\ domains' = <<>>
    /\ backtrack_count' = 0
    /\ subjects' = <<>>
    /\ stack' = <<>>
    /\ call_index' = 0
    /\ retval' = FALSE
    /\ repeated' = FALSE
    /\ hall_config' = [halls |-> <<>>, per_subject_limit |-> 1]
    /\ apc' = "idle"
    /\ cur_day' = 0
    /\ cur_slot' = 0
    /\ hall_assignments' = <<>>
    /\ allocations' = <<>>
    /\ remaining' = <<>>
    /\ hall_index' = 0
    /\ hall_allocation' = <<>>
    /\ hall_capacity_used' = 0
    /\ subjects_with_students' = <<>>
    /\ sws_pos' = 1
    /\ UNCHANGED <<rng, rng_origin, first_result>>

\* POST /api/generate, lines 132-135: both calls returned; the result is
\* stored under "last_result" and returned as a dict
GenerateReturn ==
    /\ handling = "generate"
    /\ pc = "done"
    /\ apc = "done"
    /\ LET hall_allocation_result ==
               [assignments |-> hall_assignments,
                timetable |-> [assignments |-> result, config |-> config],
                hall_config |-> hall_config]
       IN  /\ last_result' = Some(hall_allocation_result)
           /\ response' = [to |-> "generate", status |-> 200,
                           body |-> to_dict(hall_allocation_result)]
    /\ RequestDropped
    /\ UNCHANGED config_store

\* POST /api/generate, lines 136-177: one of the two calls raised; the
\* exception is turned into an HTTPException
GenerateExceptStores ==
    /\ handling = "generate"
    /\ \/ pc = "failed"
       \/ pc = "done" /\ apc = "failed"
    /\ response' = HttpException(error)
    /\ last_result' = Some([assignments |-> hall_assignments,
                            timetable |-> [assignments |-> result, config |-> config],
                            hall_config |-> hall_config])
    /\ RequestDropped
    /\ UNCHANGED config_store

GenerateExcept ==
    /\ handling = "generate"
    /\ \/ pc = "failed"
       \/ pc = "done" /\ apc = "failed"
    /\ response' = HttpException(error)
    /\ RequestDropped
    /\ UNCHANGED <<config_store, last_result>>

\* GET /api/export/csv, lines 180-208
ExportCsv ==
    /\ handling = "none"
    /\ response' =
          IF export_status(last_result) = 404
          THEN [to |-> "export", status |-> 404,
                body |-> "No timetable generated yet. Please generate a timetable first."]
          ELSE [to |-> "export", status |-> 200, body |-> generate_csv_export(last_result[1])]
    /\ UNCHANGED <<config_store, last_result, handling, request, config, pc, result, error,
                   schedVars, allocVars>>

\* The bodies of the requests, as the schemas of schemas.py admit them: one
\* day, one group that sits all the subjects, one hall that holds the group
\* or is one seat short; with more subjects than slots the solve fails, with
\* the short hall the allocation fails.
GenerateBodies ==
    {[timetable_config |->
         [days |-> 1, slots_per_day |-> sp, subjects |-> [i \in 1..n |-> i],
          groups |-> <<[subjects |-> [i \in 1..n |-> i], size |-> MaxGroupSize]>>,
          random_seed |-> None],
      hall_config |->
         [halls |-> <<[name |-> 1, capacity |-> cap]>>, per_subject_limit |-> MaxLimit]] :
        sp \in {1, MaxAllocCells}, n \in 1..MaxAllocSubjects,
        cap \in {MaxGroupSize - 1, MaxGroupSize}}

ConfigBodies ==
    {[subjects |-> <<1>>, groups |-> g, days |-> 1, slots_per_day |-> 1,
      halls |-> <<[name |-> 1, capacity |-> 1]>>, per_subject_limit |-> l,
      random_seed |-> None] :
        g \in {<<>>, <<[name |-> 1, subjects |-> <<1>>, size |-> 1]>>}, l \in {1, MaxLimit}}

GatewayInit ==
    /\ config = NoConfig
    /\ pc = "idle"
    /\ result = <<>>
    /\ error = NoError
    /\ rng \in RngStates
    /\ rng_origin = "fresh"
    /\ assignment = <<>>
    /\ domains = <<>>
    /\ backtrack_count = 0
    /\ subjects = <<>>
    /\ stack = <<>>
    /\ call_index = 0
    /\ retval = FALSE
    /\ first_result = [s \in Seeds \ {None} |-> None]
    /\ repeated = FALSE
    /\ GatewayIdle
    /\ AllocIdle

GatewayNext ==
    \/ \E body \in ConfigBodies : ConfigureSystem(body)
    \/ \E body \in GenerateBodies : GenerateSchedule(body)
    \/ BacktrackEnter
    \/ BacktrackLoop
    \/ BacktrackReturn
    \/ GenerateAllocate
    \/ AllocateSlot
    \/ GreedyHall
    \/ GreedySubject
    \/ GreedyHallEnd
    \/ GenerateReturn
    \/ GenerateExcept
    \/ ExportCsv

GatewaySpec == GatewayInit /\ [][GatewayNext]_vars

\* ------------------------------------------------------ the pipeline
\* allocate_halls applied to the timetable that generate_timetable returned
\* for a configuration: the subjects 1..m have a group of z students each
\* (m is n, or n - 1 so that the last subject has no group), and one more
\* group of one student may list all the subjects; the halls are h halls of
\* one capacity.
PipeGroups(m, k, z) ==
    [i \in 1..(m + (IF k > 0 THEN 1 ELSE 0)) |->
        IF i <= m THEN [subjects |-> <<i>>, size |-> z]
        ELSE [subjects |-> [j \in 1..k |-> j], size |-> 1]]

PipeConfigs ==
    UNION {{[days |-> dg[1], slots_per_day |-> dg[2], subjects |-> [i \in 1..n |-> i],
             groups |-> PipeGroups(mk[1], mk[2], z), random_seed |-> None] :
               dg \in Grids(MaxAllocCells), z \in 1..MaxGroupSize,
               mk \in {<<n, 0>>, <<n, n>>} \cup (IF n > 1 THEN {<<n - 1, 0>>} ELSE {})} :
           n \in 1..MaxAllocSubjects}

PipeHallConfigs ==
    {[halls |-> [i \in 1..h |-> [name |-> i, capacity |-> cap]], per_subject_limit |-> l] :
        h \in 1..MaxHalls, cap \in 1..MaxCapacity, l \in 1..MaxLimit}

PipeInit ==
    /\ config \in PipeConfigs
    /\ pc = "idle"
    /\ result = <<>>
    /\ error = NoError
    /\ rng \in RngStates
    /\ rng_origin = "fresh"
    /\ assignment = <<>>
    /\ domains = <<>>
    /\ backtrack_count = 0
    /\ subjects = <<>>
    /\ stack = <<>>
    /\ call_index = 0
    /\ retval = FALSE
    /\ first_result = [s \in Seeds \ {None} |-> None]
    /\ repeated = FALSE
    /\ GatewayIdle
    /\ AllocIdle

PipeNext ==
    \/ FirstSolve(None)
    \/ BacktrackEnter
    \/ BacktrackLoop
    \/ BacktrackReturn
    \/ \E hc \in PipeHallConfigs : AllocateHalls(hc)
    \/ AllocateSlot
    \/ GreedyHall
    \/ GreedySubject
    \/ GreedyHallEnd

PipeSpec == PipeInit /\ [][PipeNext]_vars

\* ------------------------------------------------------ the group store
\* POST /api/groups, lines 222-256: 400 when a stored group has the name,
\* else the group is appended and the list returned
AddGroup(body) ==
    /\ handling = "none"
    /\ LET new_group == [name |-> body.name, subjects |-> body.subjects, size |-> body.size]
       IN  IF \E i \in DOMAIN config_store.groups : config_store.groups[i].name = body.name
           THEN /\ response' = [to |-> "add_group", status |-> 400,
                                body |-> <<"Group already exists", body.name>>]
                /\ UNCHANGED config_store
           ELSE /\ config_store' = [config_store EXCEPT !.groups = Append(@, new_group)]
                /\ response' = [to |-> "add_group", status |-> 200,
                                body |-> [message |-> <<"Group added successfully", body.name>>,
                                          groups |-> config_store'.groups]]
    /\ UNCHANGED <<last_result, handling, request, config, pc, result, error,
                   schedVars, allocVars>>

\* DELETE /api/groups/{group_name}, lines 278-313: the groups of another
\* name are kept; 404 when the list is as long as before
DeleteGroup(group_name) ==
    /\ handling = "none"
    /\ LET kept == SelectSeq(config_store.groups, LAMBDA g : g.name # group_name)
       IN  /\ config_store' = [config_store EXCEPT !.groups = kept]
           /\ response' =
                 IF Len(kept) = Len(config_store.groups)
                 THEN [to |-> "delete_group", status |-> 404,
                       body |-> <<"Group not found", group_name>>]
                 ELSE [to |-> "delete_group", status |-> 200,
                       body |-> [message |-> <<"Group deleted successfully", group_name>>,
                                 groups |-> kept]]
    /\ UNCHANGED <<last_result, handling, request, config, pc, result, error,
                   schedVars, allocVars>>

\* The bodies of the requests to the group store, as the schemas admit
\* them: StudentGroupSchema and ConfigRequestSchema put no condition on the
\* names, so a configuration may name two groups alike.
GroupNames == 1..MaxNames

AddGroupBodies ==
    {[name |-> nm, subjects |-> <<1>>, size |-> z] : nm \in GroupNames, z \in 1..MaxGroupSize}

StoreConfigBodies ==
    {[subjects |-> <<1>>,
      groups |-> [i \in DOMAIN nms |-> [name |-> nms[i], subjects |-> <<1>>, size |-> 1]],
      days |-> 1, slots_per_day |-> 1, halls |-> <<[name |-> 1, capacity |-> 1]>>,
      per_subject_limit |-> 1, random_seed |-> None] :
        nms \in {<<>>} \cup NonDecreasingLists(MaxNames, MaxGroups)}

StoreNext ==
    \/ \E body \in StoreConfigBodies : ConfigureSystem(body)
    \/ \E body \in AddGroupBodies : AddGroup(body)
    \/ \E group_name \in GroupNames : DeleteGroup(group_name)

StoreSpec == GatewayInit /\ [][StoreNext]_vars

\* ================================================================ claims
\* the cells of the grid of a configuration
InGrid(c, day, slot) ==
    /\ 0 <= day /\ day < c.days
    /\ 0 <= slot /\ slot < c.slots_per_day

\* C1: whenever generate_timetable returns, every subject of config.subjects
\* is in exactly one entry of the result, no other subject is in it, and
\* every entry's (day, slot) lies in the grid.
C1_TotalAssignment ==
    pc = "done" =>
        /\ \A s \in Range(config.subjects) :
              Cardinality({i \in DOMAIN result : result[i].subject = s}) = 1
        /\ \A i \in DOMAIN result :
              /\ result[i].subject \in Range(config.subjects)
              /\ InGrid(config, result[i].day, result[i].slot)

C1_Witness ==
    /\ pc = "done"
    /\ Len(config.subjects) = 3
    /\ Len(result) = 3

\* C2: in every state of the search and in the returned result, no two
\* subjects hold the same (day, slot), whether or not they conflict.
C2_SlotInjectivity ==
    /\ \A i, j \in DOMAIN assignment :
          i # j => assignment[i].cell # assignment[j].cell
    /\ \A i, j \in DOMAIN result :
          i # j => <<result[i].day, result[i].slot>> # <<result[j].day, result[j].slot>>

\* two subjects that share no group are both assigned while the search runs
C2_Witness ==
    /\ pc = "call"
    /\ \E i, j \in DOMAIN assignment :
          /\ i # j
          /\ assignment[i].subject \notin ConflictsOf(conflicts, assignment[j].subject)

\* C3: in every returned timetable, every group has at most one of its
\* subjects in any (day, slot).
C3_GroupConflictFree ==
    pc = "done" =>
        \A g \in DOMAIN config.groups :
            \A d \in 0..(config.days - 1), sl \in 0..(config.slots_per_day - 1) :
                Cardinality({s \in Range(config.groups[g].subjects) :
                                \E i \in DOMAIN result :
                                    /\ result[i].subject = s
                                    /\ result[i].day = d
                                    /\ result[i].slot = sl}) <= 1

\* a timetable is returned for a group of two distinct subjects
C3_Witness ==
    /\ pc = "done"
    /\ \E g \in DOMAIN config.groups :
          Cardinality(Range(config.groups[g].subjects)) = 2
    /\ Len(result) >= 2

\* C7: a solve with a seed returns the result that the first solve with the
\* same configuration and seed returned, whatever solves ran in between.
C7_SeedDeterminism ==
    (pc = "done" /\ config.random_seed # None) =>
        first_result[config.random_seed] = Some(result)

\* a seeded solve is repeated after solves with the other seed, and the two
\* seeds lead to different timetables
C7_Witness ==
    /\ pc = "done"
    /\ repeated
    /\ config.random_seed # None
    /\ \A s \in Seeds \ {None} : first_result[s] # None
    /\ \E s, t \in Seeds \ {None} : first_result[s] # first_result[t]

\* C8: with more subjects than cells, generate_timetable fails with
\* InsufficientSlotsError before any search step, with diagnostics
\* subjects_count, total_slots and deficit = |subjects| - total_slots.
C8_InsufficientSlots ==
    (pc = "failed" /\ Len(config.subjects) > total_slots(config)) =>
        /\ error.kind = "InsufficientSlotsError"
        /\ error.diagnostics =
              Some([subjects_count |-> Len(config.subjects),
                    total_slots |-> total_slots(config),
                    deficit |-> Len(config.subjects) - total_slots(config)])
        /\ backtrack_count = 0

\* C9: when a config subject is in no group, or a group lists a subject that
\* is not a config subject, generate_timetable fails with an error that is
\* not a NoSolutionError, and the search has not started.
C9_InvalidConfigKind ==
    LET all_group_subjects ==
            UNION {Range(config.groups[g].subjects) : g \in DOMAIN config.groups}
    IN  (pc \in {"done", "failed"} /\ all_group_subjects # Range(config.subjects)) =>
            /\ pc = "failed"
            /\ "NoSolutionError" \notin Bases(error.kind)
            /\ domains = <<>>
            /\ backtrack_count = 0
            /\ assignment = <<>>

\* ------------------------------------------------------ hall allocation
\* every HallAssignment made so far: returned, or built for the slot under way
AllHallAssignments == hall_assignments \o allocations

\* capacity of the hall of that name
CapacityOf(name) ==
    (CHOOSE h \in Range(hall_config.halls) : h.name = name).capacity

RECURSIVE SumEntries(_)
SumEntries(entries) ==
    IF entries = <<>> THEN 0 ELSE entries[1][2] + SumEntries(Tail(entries))

\* C4: in every HallAssignment the counts sum to at most the capacity of the
\* hall it names, and every count is strictly positive.
C4_HallCapacity ==
    \A k \in DOMAIN AllHallAssignments :
        LET ha == AllHallAssignments[k]
        IN  /\ SumEntries(ha.allocations) <= CapacityOf(ha.hall_name)
            /\ \A e \in DOMAIN ha.allocations : ha.allocations[e][2] > 0

\* a returned allocation has a hall filled to its capacity by two subjects
C4_Witness ==
    /\ apc = "done"
    /\ \E k \in DOMAIN hall_assignments :
          /\ Len(hall_assignments[k].allocations) = 2
          /\ SumEntries(hall_assignments[k].allocations) =
                CapacityOf(hall_assignments[k].hall_name)

\* C5: every step that records an entry (subject, count) records a count of at
\* most per_subject_limit, unless exactly one subject of the slot has
\* positive remaining demand when the entry is computed.
C5_PerSubjectCap ==
    [][(apc = "subject" /\ Len(hall_allocation') = Len(hall_allocation) + 1) =>
          \/ hall_allocation'[Len(hall_allocation')][2] <= hall_config.per_subject_limit
          \/ NumWithDemand(remaining) = 1]_vars

\* a count above the limit is recorded, in a slot that holds two subjects
\* with demand
C5_Witness ==
    /\ apc = "done"
    /\ \E k \in DOMAIN hall_assignments :
          /\ \E e \in DOMAIN hall_assignments[k].allocations :
                hall_assignments[k].allocations[e][2] > hall_config.per_subject_limit
          /\ \E m \in DOMAIN hall_assignments :
                /\ hall_assignments[m].day = hall_assignments[k].day
                /\ hall_assignments[m].slot = hall_assignments[k].slot
                /\ Len(hall_assignments[m].allocations) = 2

\* the demand of a subject: the sizes of the groups that list it
RECURSIVE DemandFrom(_, _, _)
DemandFrom(groups, s, g) ==
    IF g > Len(groups) THEN 0
    ELSE (IF s \in Range(groups[g].subjects) THEN groups[g].size ELSE 0)
         + DemandFrom(groups, s, g + 1)

Demand(s) == DemandFrom(config.groups, s, 1)

\* the subjects the timetable puts in a cell
SubjectsAt(d, sl) ==
    {result[i].subject : i \in {j \in DOMAIN result : result[j].day = d /\ result[j].slot = sl}}

RECURSIVE SumOver(_, _)
SumOver(S, f) ==
    IF S = {} THEN 0
    ELSE LET x == CHOOSE y \in S : TRUE IN f[x] + SumOver(S \ {x}, f)

\* the students of subject s seated in the cell by a list of HallAssignments
Seated(has, d, sl, s) ==
    LET here == {k \in DOMAIN has : has[k].day = d /\ has[k].slot = sl}
    IN  SumOver(here, [k \in here |->
            SumEntries(SelectSeq(has[k].allocations, LAMBDA e : e[1] = s))])

SlotDemand(d, sl) ==
    LET subs == SubjectsAt(d, sl) IN SumOver(subs, [s \in subs |-> Demand(s)])

\* C6: when allocate_halls returns, in every cell every scheduled subject is
\* seated exactly as many times as its demand, and a cell without a subject
\* has no HallAssignment.
C6_DemandConservation ==
    apc = "done" =>
        \A d \in 0..(config.days - 1), sl \in 0..(config.slots_per_day - 1) :
            /\ \A s \in SubjectsAt(d, sl) : Seated(hall_assignments, d, sl, s) = Demand(s)
            /\ SubjectsAt(d, sl) = {} =>
                  \A k \in DOMAIN hall_assignments :
                      ~ (hall_assignments[k].day = d /\ hall_assignments[k].slot = sl)

\* a subject listed by two groups is seated over two halls, next to an empty cell
C6_Witness ==
    /\ apc = "done"
    /\ \E d \in 0..(config.days - 1), sl \in 0..(config.slots_per_day - 1) :
          SubjectsAt(d, sl) = {}
    /\ \E i \in DOMAIN result :
          /\ \A g \in DOMAIN config.groups :
                result[i].subject \in Range(config.groups[g].subjects)
          /\ Len(config.groups) = 2
          /\ Cardinality({k \in DOMAIN hall_assignments :
                            \E e \in DOMAIN hall_assignments[k].allocations :
                                hall_assignments[k].allocations[e][1] = result[i].subject}) = 2

\* some cell's demand exceeds the capacity of all halls together
Overfull ==
    \E d \in 0..(config.days - 1), sl \in 0..(config.slots_per_day - 1) :
        SlotDemand(d, sl) > total_capacity(hall_config)

Finished == apc \in {"done", "failed"}

\* C10 as claimed: when some cell's demand exceeds the total hall capacity,
\* the allocator fails with InsufficientHallCapacityError and reports
\* remaining_students = demand of that cell - total capacity.
C10_ExactDeficit ==
    (Finished /\ Overfull) =>
        /\ apc = "failed"
        /\ error.kind = "InsufficientHallCapacityError"
        /\ \E d \in 0..(config.days - 1), sl \in 0..(config.slots_per_day - 1) :
              /\ SlotDemand(d, sl) > total_capacity(hall_config)
              /\ error.args[2].remaining_students =
                    SlotDemand(d, sl) - total_capacity(hall_config)

\* C10 amended: when some cell's demand exceeds the total hall capacity, the
\* allocator fails with InsufficientHallCapacityError at the first cell it
\* cannot pack; remaining_students is at least that cell's demand minus the
\* total capacity, and equal to it when only one subject of that cell has
\* students.
C10_DeficitBound ==
    (Finished /\ Overfull) =>
        /\ apc = "failed"
        /\ error.kind = "InsufficientHallCapacityError"
        /\ error.args[2].total_capacity = total_capacity(hall_config)
        /\ error.args[2].remaining_students >=
              SlotDemand(cur_day, cur_slot) - total_capacity(hall_config)
        /\ Cardinality({s \in SubjectsAt(cur_day, cur_slot) : Demand(s) > 0}) = 1 =>
              error.args[2].remaining_students =
                  SlotDemand(cur_day, cur_slot) - total_capacity(hall_config)

\* the allocation fails on a cell that holds a single subject, whose demand
\* is above the per-subject limit and above the total capacity of two halls
C10_Witness ==
    /\ apc = "failed"
    /\ Cardinality(SubjectsAt(cur_day, cur_slot)) = 1
    /\ Len(hall_config.halls) = 2
    /\ SlotDemand(cur_day, cur_slot) > total_capacity(hall_config)
    /\ hall_config.per_subject_limit < total_capacity(hall_config)
    /\ error.args[2].remaining_students > 0

\* ------------------------------------------------------ the search
\* two different subjects that some group lists together
Adjacent(s, t) ==
    /\ s # t
    /\ \E g \in DOMAIN config.groups :
          {s, t} \subseteq Range(config.groups[g].subjects)

\* some assignment of the config subjects to cells uses no cell twice and
\* puts no two subjects of a group in one cell
Schedulable ==
    \E f \in [Range(config.subjects) -> Range(all_slots(config))] :
        /\ \A s, t \in DOMAIN f : s # t => f[s] # f[t]
        /\ \A s, t \in DOMAIN f : Adjacent(s, t) => f[s] # f[t]

SearchFailed ==
    /\ pc = "failed"
    /\ error.kind = "NoSolutionError"
    /\ error.args = <<"No valid timetable found after exhaustive search">>

\* C13: for a config that passes validation, the search raises NoSolutionError
\* only if no assignment of the subjects to cells is injective on cells and
\* free of group conflicts.
C13_SearchComplete == SearchFailed => ~ Schedulable

\* the subjects that hold a cell
Assigned == {assignment[i].subject : i \in DOMAIN assignment}

\* no unassigned subject has in its domain the cell of an assigned subject
\* that it shares a group with
ForwardChecked ==
    \A i \in DOMAIN assignment :
        \A u \in DOMAIN domains :
            (u \notin Assigned /\ Adjacent(assignment[i].subject, u)) =>
                assignment[i].cell \notin domains[u]

\* the loop of the innermost call is about to try a cell
Trying == pc = "loop" /\ stack[Len(stack)].pos <= Len(stack[Len(stack)].possible_slots)

Current == subjects[stack[Len(stack)].index + 1]

Candidate == stack[Len(stack)].possible_slots[stack[Len(stack)].pos]

\* giving the candidate to the current subject would take the last cell of
\* an unassigned subject that shares a group with it
EmptiesNeighbour ==
    \E u \in DOMAIN domains :
        /\ u \notin Assigned \cup {Current}
        /\ Adjacent(Current, u)
        /\ domains[u] \ {Candidate} = {}

\* C14: at every entry to _backtrack, no unassigned subject has in its domain
\* the cell of an assigned subject adjacent to it in the conflict graph; and
\* a candidate whose forward check empties the domain of an unassigned
\* neighbour is dropped in the same step, with assignment and domains as
\* they were.
C14_ForwardChecking ==
    [][/\ pc' = "call" => ForwardChecked'
       /\ (Trying /\ EmptiesNeighbour) =>
             /\ pc' = "loop"
             /\ assignment' = assignment
             /\ domains' = domains
             /\ stack' = [stack EXCEPT ![Len(stack)].pos = @ + 1]]_vars

\* a call is entered while an unassigned subject has lost the cell of an
\* assigned subject of its group
C14_Witness ==
    /\ pc = "call"
    /\ \E i \in DOMAIN assignment :
          \E u \in DOMAIN domains :
              /\ u \notin Assigned
              /\ Adjacent(assignment[i].subject, u)
              /\ domains[u] = Range(all_slots(config)) \ {assignment[i].cell}

\* a forward check never leaves an unassigned neighbour without a cell
NeverEmptied == ~ (Trying /\ EmptiesNeighbour)

\* the search fails only on a config in which a group lists a subject twice
FailsOnlyOnRepeat ==
    SearchFailed =>
        \E g \in DOMAIN config.groups :
            Cardinality(Range(config.groups[g].subjects)) < Len(config.groups[g].subjects)

\* the innermost call returns False in this step
ReturnsFalse == pc = "loop" /\ pc' = "ret" /\ ~ retval'

\* C15: when a call of _backtrack returns False, the assignment and every
\* domain are what they were when the call was entered; after a failed
\* search the assignment is empty and every domain is the full set of cells;
\* no step of a solve changes the config.
C15_BacktrackRestores ==
    [][/\ ReturnsFalse =>
             /\ assignment' = stack[Len(stack)].entry_assignment
             /\ domains' = stack[Len(stack)].entry_domains
       /\ SearchFailed' =>
             /\ assignment' = <<>>
             /\ domains' = [s \in Range(config.subjects) |-> Range(all_slots(config))]
       /\ pc # "idle" => config' = config]_vars

\* a call entered with a subject assigned and a domain pruned has returned
\* False, and the call that made the assignment is trying its next cell
C15_Witness ==
    /\ Trying
    /\ stack[Len(stack)].pos > 1
    /\ Len(stack) >= 1
    /\ assignment = stack[Len(stack)].entry_assignment
    /\ domains = stack[Len(stack)].entry_domains
    /\ backtrack_count > Len(stack) + 1
    /\ \E u \in DOMAIN domains : Adjacent(Current, u) /\ u \notin Assigned

\* the number of subjects that share a group with s
Degree(s) == Cardinality({t \in Range(config.subjects) : Adjacent(s, t)})

\* the position of s in the config's subject list
InputPosition(s) == CHOOSE i \in DOMAIN config.subjects : config.subjects[i] = s

\* the search has started: its subject list has been computed
Searching == pc \in {"call", "loop", "ret", "done"} \/ SearchFailed

\* C16: all through the search, and whatever the seed and the generator's
\* state, the list handed to _backtrack is the config's subjects by
\* descending conflict degree, subjects of equal degree in config order.
C16_StaticDegreeOrder ==
    Searching =>
        /\ Len(subjects) = Len(config.subjects)
        /\ Range(subjects) = Range(config.subjects)
        /\ \A i, j \in DOMAIN subjects :
              i < j =>
                 \/ Degree(subjects[i]) > Degree(subjects[j])
                 \/ /\ Degree(subjects[i]) = Degree(subjects[j])
                    /\ InputPosition(subjects[i]) < InputPosition(subjects[j])

\* a seeded search has drawn from the generator, on a list in which a
\* subject was moved ahead of an earlier one of lower degree and two subjects
\* of equal degree stand in config order, the larger identifier first
C16_Witness ==
    /\ pc = "loop"
    /\ config.random_seed # None
    /\ Len(stack) >= 2
    /\ \E i, j \in DOMAIN subjects :
          i < j /\ InputPosition(subjects[i]) > InputPosition(subjects[j])
    /\ \E i, j \in DOMAIN subjects :
          /\ i < j
          /\ Degree(subjects[i]) = Degree(subjects[j])
          /\ subjects[i] > subjects[j]

\* C19 as claimed: whenever the loop is about to try a cell, no assigned
\* subject holds a cell of the current subject's domain, so the occupancy
\* test of _is_consistent never rejects the candidate.
C19_OccupancyRedundant ==
    Trying =>
        \A i \in DOMAIN assignment :
            /\ assignment[i].cell \notin domains[Current]
            /\ assignment[i].cell # Candidate

\* C19 amended: whenever the loop is about to try a cell, the assigned
\* subjects that hold a cell of the current subject's domain, or the
\* candidate itself, share no group with the current subject; forward
\* checking has removed the cells of those that do.
C19_OccupancyOnlyNonAdjacent ==
    Trying =>
        \A i \in DOMAIN assignment :
            (assignment[i].cell \in domains[Current] \/ assignment[i].cell = Candidate) =>
                ~ Adjacent(assignment[i].subject, Current)

\* the candidate is held by an assigned subject, while another assigned
\* subject, of the current subject's group, has had its cell removed
C19_Witness ==
    /\ Trying
    /\ \E i \in DOMAIN assignment : assignment[i].cell = Candidate
    /\ \E i \in DOMAIN assignment :
          /\ Adjacent(assignment[i].subject, Current)
          /\ assignment[i].cell \notin domains[Current]

\* ------------------------------------------------------ the cap and its lifting
\* every hall's list of (subject, count) that holds a count above the limit
\* holds nothing else
OverLimitAlone ==
    /\ \A k \in DOMAIN AllHallAssignments :
          (\E e \in DOMAIN AllHallAssignments[k].allocations :
              AllHallAssignments[k].allocations[e][2] > hall_config.per_subject_limit) =>
                 Len(AllHallAssignments[k].allocations) = 1
    /\ (\E e \in DOMAIN hall_allocation :
           hall_allocation[e][2] > hall_config.per_subject_limit) =>
              Len(hall_allocation) = 1

\* C17: a count above per_subject_limit is recorded only in a hall that had
\* exactly one subject with students left when its filling started, so a
\* HallAssignment that holds such a count holds exactly one entry.
C17_LiftedOnlyAlone ==
    [][/\ (/\ apc = "subject"
           /\ Len(hall_allocation') = Len(hall_allocation) + 1
           /\ hall_allocation'[Len(hall_allocation')][2] > hall_config.per_subject_limit) =>
              Len(subjects_with_students) = 1
       /\ OverLimitAlone']_vars

\* the allocation is complete, and a hall holds one entry above the limit
\* for a cell in which two subjects have students
C17_Witness ==
    /\ apc = "done"
    /\ \E k \in DOMAIN hall_assignments :
          /\ Len(hall_assignments[k].allocations) = 1
          /\ hall_assignments[k].allocations[1][2] > hall_config.per_subject_limit
          /\ Cardinality({s \in SubjectsAt(hall_assignments[k].day, hall_assignments[k].slot) :
                             Demand(s) > 0}) >= 2

\* the cap is lifted for a subject that is not the first of its hall: the
\* subjects before it were seated in full, each within the limit
LiftedMidHall ==
    /\ apc = "subject"
    /\ sws_pos > 1
    /\ sws_pos <= Len(subjects_with_students)
    /\ hall_capacity_used < sorted_halls[hall_index + 1].capacity
    /\ NumWithDemand(remaining) = 1

\* ---------------------------------------------------------------- C11
\* a /api/generate request is answered after both calls returned
GenerateSucceeds == handling = "generate" /\ pc = "done" /\ apc = "done" /\ handling' = "none"

\* a /api/generate request is answered after one of the calls raised
GenerateFails ==
    /\ handling = "generate"
    /\ handling' = "none"
    /\ pc = "failed" \/ apc = "failed"

\* GET /api/export/csv is answered
ExportAnswered == handling = "none" /\ handling' = "none" /\ response'.to = "export"

\* C11: over any sequence of gateway requests, last_result is written only
\* by a /api/generate in which the solve and the hall allocation both
\* succeeded, and such a request writes it; a /api/generate that fails at
\* either stage leaves last_result and every other field of the store as
\* they were; once written, last_result is never removed; and GET
\* /api/export/csv answers 404 exactly when last_result has not been written,
\* that is, while no /api/generate has succeeded, and never afterwards.
C11_LastResultOnlyOnSuccess ==
    [][ /\ last_result' # last_result => GenerateSucceeds
        /\ GenerateSucceeds => last_result' # None /\ response'.status = 200
        /\ GenerateFails => /\ last_result' = last_result
                            /\ config_store' = config_store
                            /\ response'.status # 200
        /\ last_result # None => last_result' # None
        /\ ExportAnswered => (response'.status = 404 <=> last_result = None)
        /\ ExportAnswered => response'.status \in {200, 404} ]_vars

\* a result is stored, a later /api/generate failed in the allocator and the
\* store still holds the result and a configuration that was sent in between
C11_Witness ==
    /\ last_result # None
    /\ config_store.subjects # <<>>
    /\ response.to = "generate"
    /\ response.status = 422
    /\ response.body.error = "Insufficient hall capacity"

\* ---------------------------------------------------------------- C12
\* a /api/generate request is answered after allocate_halls raised
AllocationFails == handling = "generate" /\ apc = "failed" /\ handling' = "none"

\* C12: when hall allocation fails inside /api/generate, the gateway answers
\* 422 with a body of error, message and diagnostics, and the diagnostics
\* are the remaining_students, the total_capacity and the unmet count of
\* each subject that the allocator raised for the failing slot.
C12_AllocationDiagnostics ==
    [][ AllocationFails =>
          /\ response'.status = 422
          /\ DOMAIN response'.body = {"error", "message", "diagnostics"}
          /\ {"remaining_students", "total_capacity", "subjects"}
                 \subseteq DOMAIN response'.body.diagnostics
          /\ response'.body.diagnostics.remaining_students = error.args[2].remaining_students
          /\ response'.body.diagnostics.total_capacity = error.args[2].total_capacity
          /\ response'.body.diagnostics.subjects = error.args[2].subjects ]_vars

\* what the gateway does answer: status 422, the three keys, an empty dict
\* of diagnostics, and the allocator's data inside the message only
C12_AnswerSent ==
    [][ AllocationFails =>
          /\ response'.status = 422
          /\ DOMAIN response'.body = {"error", "message", "diagnostics"}
          /\ response'.body.error = "Insufficient hall capacity"
          /\ DOMAIN response'.body.diagnostics = {}
          /\ response'.body.message = error.args
          /\ error.args[2].remaining_students > 0 ]_vars

\* ---------------------------------------------------------------- C18
\* a _backtrack call shuffles a list of two or more cells: it draws from the
\* generator of module random
Draws ==
    /\ pc = "call"
    /\ pc' = "loop"
    /\ Len(stack'[Len(stack')].possible_slots) >= 2

\* C18: solves share no mutable state; the value orders a solve tries, and
\* so its result, do not depend on state that another solve wrote before
\* it: a solve never draws from generator state left by an earlier solve.
C18_NoSharedState == [][Draws => rng_origin # "other"]_vars

\* a solve with a seed draws from the state it seeded itself
C18_SeededOwnState == [][Draws /\ config.random_seed # None => rng_origin = "own"]_vars

\* ---------------------------------------------------------------- C20
\* _greedy_allocate records an amount for a subject in the hall being filled
Records == apc = "subject" /\ hall_allocation' # hall_allocation

\* the cells the allocator has dealt with: those before (cur_day, cur_slot)
Dealt(d, sl) ==
    \/ apc = "done"
    \/ apc \in {"slot", "hall", "subject", "failed"}
         /\ (d < cur_day \/ (d = cur_day /\ sl < cur_slot))

\* C20: when allocate_halls is applied to a timetable that generate_timetable
\* returned, every cell holds at most one subject; every HallAssignment has
\* exactly one allocation entry; every amount is recorded while one subject
\* has students left (the single-subject exception applies), and it is the
\* smaller of the students left and the seats free in the hall, so
\* per_subject_limit reduces no count; and the allocation of a cell fails if
\* and only if the demand of its subject exceeds the capacity of all halls.
C20_PipelineSingleSubject ==
    /\ [] /\ pc = "done" =>
                \A d \in 0..(config.days - 1), sl \in 0..(config.slots_per_day - 1) :
                    Cardinality(SubjectsAt(d, sl)) <= 1
          /\ \A k \in DOMAIN AllHallAssignments : Len(AllHallAssignments[k].allocations) = 1
          /\ apc = "failed" => SlotDemand(cur_day, cur_slot) > total_capacity(hall_config)
          /\ \A d \in 0..(config.days - 1), sl \in 0..(config.slots_per_day - 1) :
                 Dealt(d, sl) => SlotDemand(d, sl) <= total_capacity(hall_config)
    /\ [][ Records =>
             /\ NumWithDemand(remaining) = 1
             /\ hall_allocation'[Len(hall_allocation')][2] =
                   Min2(subjects_with_students[sws_pos].count,
                        sorted_halls[hall_index + 1].capacity - hall_capacity_used) ]_vars

\* the pipeline ended for two subjects: each has a cell of its own, and a
\* subject is seated over two halls with more students in a hall than
\* per_subject_limit
C20_Witness ==
    /\ pc = "done"
    /\ apc = "done"
    /\ Len(config.subjects) = 2
    /\ Len(hall_assignments) > 2
    /\ \E k \in DOMAIN hall_assignments :
          hall_assignments[k].allocations[1][2] > hall_config.per_subject_limit
    /\ \E k, l \in DOMAIN hall_assignments :
          /\ k # l
          /\ hall_assignments[k].day = hall_assignments[l].day
          /\ hall_assignments[k].slot = hall_assignments[l].slot

\* the pipeline failed in a cell whose subject has more students than the
\* two halls have seats
C20_FailureWitness ==
    /\ pc = "done"
    /\ apc = "failed"
    /\ Len(hall_config.halls) = 2
    /\ Len(allocations) = 2

\* ---------------------------------------------------------------- C21
\* no two groups of the configuration store have the same name
UniqueNames ==
    \A i, j \in DOMAIN config_store.groups :
        i # j => config_store.groups[i].name # config_store.groups[j].name

\* the names of the stored groups
StoredNames == {config_store.groups[i].name : i \in DOMAIN config_store.groups}

\* the name in the request that was answered last
AnsweredName == IF response.status = 200 THEN response.body.message[2] ELSE response.body[2]

\* C21: after any sequence of POST /api/config, POST /api/groups and DELETE
\* /api/groups/{name} requests no two groups of the store have the same
\* name; a POST /api/groups whose name exists is answered 400 and leaves the
\* store unchanged; a DELETE for an absent name is answered 404 and leaves
\* the group list unchanged.
C21_UniqueGroupNames ==
    /\ [] UniqueNames
    /\ [][ /\ response'.to = "add_group" /\ response'.status = 400
                => config_store' = config_store
           /\ response'.to = "delete_group" /\ response'.status = 404
                => config_store'.groups = config_store.groups ]_vars

\* what does hold: POST /api/groups and DELETE keep the names unique when
\* they are, an existing name is answered 400 and an absent one 404 with the
\* store as it was, and a DELETE removes every group of the name
C21_AddDeleteKeepUnique ==
    [][ /\ (response'.to \in {"add_group", "delete_group"} /\ UniqueNames) => UniqueNames'
        /\ response'.to = "add_group" =>
              /\ response'.status = 400 <=> AnsweredName' \in StoredNames
              /\ response'.status = 400 => config_store' = config_store
              /\ response'.status \in {200, 400}
        /\ response'.to = "delete_group" =>
              /\ response'.status = 404 <=> AnsweredName' \notin StoredNames
              /\ response'.status = 404 => config_store' = config_store
              /\ response'.status \in {200, 404} ]_vars

====
